---- MODULE Spec2Model ----
(***************************************************************************)
(* PyCabfile: a ctypes wrapper around SetupIterateCabinetW.                *)
(*                                                                         *)
(* One Cabinet object is modelled.  Its fields are the variables files,    *)
(* list_files, extract_all, file_to_extract and dest.  The cabinet on disk *)
(* is the sequence `table` of entry names; SetupIterateCabinetW walks it   *)
(* and calls Cabinet._py_file_callback once per notification, so every     *)
(* notification is one step of the model.  Strings are sequences of        *)
(* one-character strings, indexed from 0 in the Python helpers.            *)
(***************************************************************************)
EXTENDS Integers, Sequences, FiniteSets

(* ---- bounds of the model ---- *)
MaxFiles == 2

(* ---- constants of the Windows Setup API (src/PyCabfile.py:31-38) ---- *)
SPFILENOTIFY_CABINETINFO == 16
SPFILENOTIFY_FILEINCABINET == 17
SPFILENOTIFY_NEEDNEWCABINET == 18
SPFILENOTIFY_FILEEXTRACTED == 19
FILEOP_SKIP == 2
FILEOP_DOIT == 1
FILEOP_ABORT == 0
NO_ERROR == 0

(* A notification code that is none of the four the callback knows. *)
UnknownNotification == SPFILENOTIFY_FILEEXTRACTED + 1

(* ---- strings ---- *)
BS == "\\"
DOT == "."
NUL == "NUL"
None == <<"None">>

(* The entry names a cabinet may hold, and one name no cabinet holds. *)
NameA == <<"a">>
NameQA == <<"q", BS, "a">>
NameZ == <<"z">>
Names == {NameA, NameQA}
FileNames == Names \cup {NameZ}

(* The paths a Cabinet may be constructed with. *)
PathPlain == <<"x", DOT, "c">>
PathDotDir == <<DOT, BS, "x", DOT, "c">>
PathNoExt == <<"q", BS, "x", "y">>
Paths == {PathPlain, PathDotDir, PathNoExt}

(* The dest arguments a caller may pass; None is the omitted argument. *)
DestD == <<"d">>
Dests == {None, DestD}

(* os.getcwd() *)
Cwd == <<"w">>

Min(a, b) == IF a < b THEN a ELSE b
Max(a, b) == IF a > b THEN a ELSE b

(* unicode.find(ch): the lowest 0-based index of ch in s, or -1. *)
Find(s, ch) ==
  IF \E i \in 1..Len(s) : s[i] = ch
    THEN (CHOOSE i \in 1..Len(s) : s[i] = ch /\ \A j \in 1..(i - 1) : s[j] # ch) - 1
    ELSE -1

(* unicode.rfind(ch): the highest 0-based index of ch in s, or -1. *)
RFind(s, ch) ==
  IF \E i \in 1..Len(s) : s[i] = ch
    THEN (CHOOSE i \in 1..Len(s) : s[i] = ch /\ \A j \in (i + 1)..Len(s) : s[j] # ch) - 1
    ELSE -1

(* Python's s[i:j]: negative indices count from the end, both are clamped. *)
PySlice(s, i, j) ==
  LET lo == IF i < 0 THEN Max(Len(s) + i, 0) ELSE Min(i, Len(s))
      hi == IF j < 0 THEN Max(Len(s) + j, 0) ELSE Min(j, Len(s))
  IN IF lo >= hi THEN <<>> ELSE SubSeq(s, lo + 1, hi)

(* Mutant: the + 1 after rfind is forgotten. *)
LastPartKeepsBackslash(s) == PySlice(s, RFind(s, BS), Len(s))

(* file_name[file_name.rfind(u"\\") + 1:] *)
LastPart(s) == PySlice(s, RFind(s, BS) + 1, Len(s))

(* A c_wchar array read as a C string: the text before the first NUL. *)
CStr(s) == IF Find(s, NUL) = -1 THEN s ELSE PySlice(s, 0, Find(s, NUL))

(* Cabinet._getdir: cabfile[cabfile.rfind(u"\\") + 1:cabfile.find(u".")] *)
GetDirName(cabfile) == PySlice(cabfile, RFind(cabfile, BS) + 1, Find(cabfile, DOT))

VARIABLES
  cabPath,          \* self.name, the path the Cabinet was constructed with
  table,            \* the entry names of the cabinet on disk, in table order
  chained,          \* whether the last entry continues in another cabinet
  dirs,             \* the directories that exist (os.stat succeeds)
  files,            \* self.files: sequence of [name, cabinet]
  list_files,       \* self._list_files
  extract_all,      \* self._extract_all
  file_to_extract,  \* self._file_to_extract
  dest,             \* self._dest
  pc,               \* "new", "iter" (inside SetupIterateCabinetW), "idle", "dead"
  phase,            \* position of SetupIterateCabinetW within one entry
  idx,              \* number of table entries SetupIterateCabinetW has finished
  cur,              \* the public operation in progress
  last,             \* the public operation that ended last, with its outcome
  failedBefore      \* some extract or extract_all has ended with CabinetError

vars == <<cabPath, table, chained, dirs, files, list_files, extract_all,
          file_to_extract, dest, pc, phase, idx, cur, last, failedBefore>>

cabinetState == <<files, list_files, extract_all, file_to_extract, dest>>

Self == "cabinet"

RECURSIVE SeqsUpTo(_, _)
SeqsUpTo(S, n) ==
  IF n = 0 THEN {<<>>}
  ELSE LET shorter == SeqsUpTo(S, n - 1)
       IN shorter \cup {Append(s, x) : s \in {t \in shorter : Len(t) = n - 1}, x \in S}

NoOp == [op |-> "none", name |-> None, destArg |-> None, dest |-> None,
         via |-> 0, log |-> <<>>, unk |-> FALSE]

NoResult == [op |-> "none", name |-> None, destArg |-> None, dest |-> None,
             via |-> 0, log |-> <<>>, unk |-> FALSE,
             retval |-> -1, result |-> "none", ret |-> None]

Init ==
  /\ cabPath \in Paths
  /\ table \in SeqsUpTo(Names, MaxFiles)
  /\ chained \in BOOLEAN
  /\ dirs \in SUBSET {DestD}
  /\ files = <<>>
  /\ list_files = FALSE
  /\ extract_all = FALSE
  /\ file_to_extract = None
  /\ dest = None
  /\ pc = "new"
  /\ phase = "none"
  /\ idx = 0
  /\ cur = NoOp
  /\ last = NoResult
  /\ failedBefore = FALSE

(***************************************************************************)
(* Cabinet._py_file_callback as a function of the notification and of the  *)
(* mode fields: the value returned, the FullTargetName written (None when  *)
(* none is), whether a CabinetFile is appended and whether it raises.      *)
(***************************************************************************)
Answer(ret, target, append, raised) ==
  [ret |-> ret, target |-> target, append |-> append, raised |-> raised]

(* Mutant: a notification that is not known is passed over like the three *)
(* that are ignored.                                                       *)
PyFileCallbackIgnoresUnknown(notification, file_name, lf, ea, fte, dst) ==
  IF notification = SPFILENOTIFY_FILEINCABINET
    THEN IF lf
           THEN Answer(FILEOP_SKIP, None, TRUE, FALSE)
         ELSE IF ea
           THEN Answer(FILEOP_DOIT,
                       CStr(dst \o <<BS>> \o LastPart(file_name) \o <<NUL>>),
                       FALSE, FALSE)
         ELSE IF file_name = fte
           THEN Answer(FILEOP_DOIT, CStr(dst \o <<NUL>>), FALSE, FALSE)
         ELSE Answer(FILEOP_SKIP, None, FALSE, FALSE)
  ELSE Answer(NO_ERROR, None, FALSE, FALSE)

(* Mutant: the listing branch misses `return FILEOP_SKIP` and falls        *)
(* through to `return NO_ERROR`.                                           *)
PyFileCallbackListingFallsThrough(notification, file_name, lf, ea, fte, dst) ==
  IF notification = SPFILENOTIFY_FILEINCABINET
    THEN IF lf
           THEN Answer(NO_ERROR, None, TRUE, FALSE)
         ELSE IF ea
           THEN Answer(FILEOP_DOIT,
                       CStr(dst \o <<BS>> \o LastPart(file_name) \o <<NUL>>),
                       FALSE, FALSE)
         ELSE IF file_name = fte
           THEN Answer(FILEOP_DOIT, CStr(dst \o <<NUL>>), FALSE, FALSE)
         ELSE Answer(FILEOP_SKIP, None, FALSE, FALSE)
  ELSE IF notification \in {SPFILENOTIFY_CABINETINFO, SPFILENOTIFY_NEEDNEWCABINET,
                            SPFILENOTIFY_FILEEXTRACTED}
    THEN Answer(NO_ERROR, None, FALSE, FALSE)
  ELSE Answer(NO_ERROR, None, FALSE, TRUE)

(* Mutant: an entry that is not the one asked for stops the walk. *)
PyFileCallbackAbortsOthers(notification, file_name, lf, ea, fte, dst) ==
  IF notification = SPFILENOTIFY_FILEINCABINET
    THEN IF lf
           THEN Answer(FILEOP_SKIP, None, TRUE, FALSE)
         ELSE IF ea
           THEN Answer(FILEOP_DOIT,
                       CStr(dst \o <<BS>> \o LastPart(file_name) \o <<NUL>>),
                       FALSE, FALSE)
         ELSE IF file_name = fte
           THEN Answer(FILEOP_DOIT, CStr(dst \o <<NUL>>), FALSE, FALSE)
         ELSE Answer(FILEOP_ABORT, None, FALSE, FALSE)
  ELSE IF notification \in {SPFILENOTIFY_CABINETINFO, SPFILENOTIFY_NEEDNEWCABINET,
                            SPFILENOTIFY_FILEEXTRACTED}
    THEN Answer(NO_ERROR, None, FALSE, FALSE)
  ELSE Answer(NO_ERROR, None, FALSE, TRUE)

PyFileCallback(notification, file_name, lf, ea, fte, dst) ==
  IF notification = SPFILENOTIFY_FILEINCABINET
    THEN IF lf
           THEN Answer(FILEOP_SKIP, None, TRUE, FALSE)
         ELSE IF ea
           THEN Answer(FILEOP_DOIT,
                       CStr(dst \o <<BS>> \o LastPart(file_name) \o <<NUL>>),
                       FALSE, FALSE)
         ELSE IF file_name = fte
           THEN Answer(FILEOP_DOIT, CStr(dst \o <<NUL>>), FALSE, FALSE)
         ELSE Answer(FILEOP_SKIP, None, FALSE, FALSE)
  ELSE IF notification \in {SPFILENOTIFY_CABINETINFO, SPFILENOTIFY_NEEDNEWCABINET,
                            SPFILENOTIFY_FILEEXTRACTED}
    THEN Answer(NO_ERROR, None, FALSE, FALSE)
  ELSE Answer(NO_ERROR, None, FALSE, TRUE)

(* Mutant: the CabinetFile keeps only the last component of the name. *)
CabinetFileLastPart(cabinet, name) == [name |-> LastPart(name), cabinet |-> cabinet]

(* CabinetFile(self, file_name) *)
CabinetFile(cabinet, name) == [name |-> name, cabinet |-> cabinet]

(* One invocation of the callback by SetupIterateCabinetW: the answer is   *)
(* logged and a listed file is appended to self.files.                     *)
Callback(notification, entry, file_name) ==
  LET a == PyFileCallback(notification, file_name, list_files, extract_all,
                          file_to_extract, dest)
  IN /\ files' = IF a.append THEN Append(files, CabinetFile(Self, file_name)) ELSE files
     /\ cur' = [cur EXCEPT !.log = Append(@, [code |-> notification, entry |-> entry,
                                              name |-> file_name, ret |-> a.ret,
                                              target |-> a.target, raised |-> a.raised]),
                           !.unk = @ \/ a.raised]
     /\ UNCHANGED <<list_files, extract_all, file_to_extract, dest>>

LastAnswer == cur'.log[Len(cur'.log)]

(***************************************************************************)
(* SetupIterateCabinetW (called at src/PyCabfile.py:152).  It sends        *)
(* CABINETINFO, then FILEINCABINET for each entry in table order; an entry *)
(* answered FILEOP_DOIT is extracted and followed by FILEEXTRACTED, after  *)
(* NEEDNEWCABINET when the entry continues in another cabinet; an entry    *)
(* answered FILEOP_ABORT ends the walk, which then reports failure.        *)
(***************************************************************************)
DeliverCabinetInfo ==
  /\ pc = "iter" /\ phase = "info"
  /\ Callback(SPFILENOTIFY_CABINETINFO, 0, None)
  /\ phase' = "file"
  /\ UNCHANGED <<cabPath, table, chained, dirs, pc, idx, last, failedBefore>>

DeliverFileInCabinet ==
  /\ pc = "iter" /\ phase = "file" /\ idx < Len(table)
  /\ Callback(SPFILENOTIFY_FILEINCABINET, idx + 1, table[idx + 1])
  /\ IF LastAnswer.ret = FILEOP_DOIT
       THEN phase' = "extracting" /\ idx' = idx
     ELSE IF LastAnswer.ret = FILEOP_ABORT
       THEN phase' = "aborted" /\ idx' = idx
     ELSE phase' = "file" /\ idx' = idx + 1
  /\ UNCHANGED <<cabPath, table, chained, dirs, pc, last, failedBefore>>

DeliverNeedNewCabinet ==
  /\ pc = "iter" /\ phase = "extracting"
  /\ chained /\ idx + 1 = Len(table)
  /\ Callback(SPFILENOTIFY_NEEDNEWCABINET, idx + 1, None)
  /\ phase' = "continued"
  /\ UNCHANGED <<cabPath, table, chained, dirs, pc, idx, last, failedBefore>>

DeliverFileExtracted ==
  /\ pc = "iter"
  /\ \/ phase = "extracting" /\ ~(chained /\ idx + 1 = Len(table))
     \/ phase = "continued"
  /\ Callback(SPFILENOTIFY_FILEEXTRACTED, idx + 1, None)
  /\ phase' = "file" /\ idx' = idx + 1
  /\ UNCHANGED <<cabPath, table, chained, dirs, pc, last, failedBefore>>

(* A notification the callback does not know, at most once per operation,   *)
(* after the cabinet info.                                                 *)
DeliverUnknown ==
  /\ pc = "iter" /\ phase = "file" /\ idx = 0 /\ ~cur.unk
  /\ Callback(UnknownNotification, 0, None)
  /\ UNCHANGED <<cabPath, table, chained, dirs, pc, phase, idx, last, failedBefore>>

(* The values SetupIterateCabinetW may return here: nonzero only when the  *)
(* whole table has been walked, zero (failure) at any point.               *)
IterateRetvals == IF phase = "file" /\ idx = Len(table) THEN {0, 1} ELSE {0}

(* Mutant: the value returned by SetupIterateCabinetW is not looked at. *)
DoCallbackNeverRaises(retval) == FALSE

(* Cabinet._do_callback: `if not retval: raise CabinetError(...)` *)
DoCallbackRaises(retval) == retval = 0

Outcome(retval, result, ret) ==
  [op |-> cur.op, name |-> cur.name, destArg |-> cur.destArg, dest |-> cur.dest,
   via |-> cur.via, log |-> cur.log, unk |-> cur.unk,
   retval |-> retval, result |-> result, ret |-> ret]

(* The operation in progress is left by the CabinetError of _do_callback:  *)
(* nothing after the call runs.                                            *)
RaiseCabinetError(retval) ==
  /\ last' = [NoResult EXCEPT !.op = cur.op, !.retval = retval,
                              !.result = "CabinetError"]
  /\ cur' = NoOp
  /\ phase' = "none" /\ idx' = 0
  /\ UNCHANGED <<cabPath, table, chained, dirs, files, list_files, extract_all,
                 file_to_extract, dest>>

(* ---- Cabinet.__init__ ---- *)
Construct ==
  /\ pc = "new"
  /\ files' = <<>>
  /\ extract_all' = FALSE
  /\ file_to_extract' = None
  /\ dest' = None
  /\ list_files' = TRUE
  /\ cur' = [NoOp EXCEPT !.op = "init"]
  /\ pc' = "iter" /\ phase' = "info" /\ idx' = 0
  /\ UNCHANGED <<cabPath, table, chained, dirs, last, failedBefore>>

(* Mutant: `self._list_files = False` after the listing pass is forgotten. *)
ConstructReturnKeepsListing ==
  /\ pc = "iter" /\ cur.op = "init"
  /\ \E retval \in IterateRetvals :
       IF DoCallbackRaises(retval)
         THEN /\ RaiseCabinetError(retval)
              /\ pc' = "dead"
         ELSE /\ last' = Outcome(retval, "ok", Self)
              /\ cur' = NoOp
              /\ pc' = "idle" /\ phase' = "none" /\ idx' = 0
              /\ UNCHANGED <<cabPath, table, chained, dirs, files, list_files,
                             extract_all, file_to_extract, dest>>
  /\ UNCHANGED failedBefore

ConstructReturn ==
  /\ pc = "iter" /\ cur.op = "init"
  /\ \E retval \in IterateRetvals :
       IF DoCallbackRaises(retval)
         THEN /\ RaiseCabinetError(retval)
              /\ pc' = "dead"
         ELSE /\ list_files' = FALSE
              /\ last' = Outcome(retval, "ok", Self)
              /\ cur' = NoOp
              /\ pc' = "idle" /\ phase' = "none" /\ idx' = 0
              /\ UNCHANGED <<cabPath, table, chained, dirs, files, extract_all,
                             file_to_extract, dest>>
  /\ UNCHANGED failedBefore

(* `if not dest`: an omitted and an empty dest are both replaced. *)
NotDest(d) == d = None \/ d = <<>>

(* os.stat / os.mkdir in _getdir and extract_all: no directory has an      *)
(* empty name, so both raise WindowsError for it.                          *)
MkdirRaises(dirname) == dirname = <<>>

(* Whether Cabinet._getdir would raise for this cabinet. *)
GetDirRaises == MkdirRaises(GetDirName(cabPath))

(* Cabinet.extract, lines 215-218: the dest the extraction writes to. *)
ExtractDest(file_name, d) ==
  IF NotDest(d)
    THEN Cwd \o <<BS>> \o GetDirName(cabPath) \o <<BS>> \o LastPart(file_name)
    ELSE d

(* Cabinet.extract_all, lines 243-244. *)
ExtractAllDest(d) ==
  IF NotDest(d) THEN Cwd \o <<BS>> \o GetDirName(cabPath) ELSE d

(* A public operation left by the WindowsError of os.mkdir, before any     *)
(* field of the Cabinet is written.                                        *)
RaiseWindowsError(op, file_name, d, via) ==
  /\ last' = [NoResult EXCEPT !.op = op, !.destArg = d, !.result = "WindowsError"]
  /\ UNCHANGED <<cabPath, table, chained, dirs, files, list_files, extract_all,
                 file_to_extract, dest, pc, phase, idx, cur, failedBefore>>

(* ---- Cabinet.extract(file_name, dest), up to the call of _do_callback ---- *)
ExtractCall(file_name, d, via) ==
  /\ pc = "idle"
  /\ IF NotDest(d) /\ GetDirRaises
       THEN RaiseWindowsError("extract", file_name, d, via)
       ELSE /\ dirs' = IF NotDest(d) THEN dirs \cup {GetDirName(cabPath)} ELSE dirs
            /\ file_to_extract' = file_name
            /\ dest' = ExtractDest(file_name, d)
            /\ cur' = [NoOp EXCEPT !.op = "extract", !.name = file_name, !.destArg = d,
                                   !.dest = ExtractDest(file_name, d), !.via = via]
            /\ pc' = "iter" /\ phase' = "info" /\ idx' = 0
            /\ UNCHANGED <<cabPath, table, chained, files, list_files, extract_all,
                           last, failedBefore>>

Extract == \E file_name \in FileNames, d \in Dests : ExtractCall(file_name, d, 0)

(* ---- CabinetFile.extract(dest): self.cabinet.extract(self.name, dest) ---- *)
CabinetFileExtract ==
  \E i \in 1..Len(files), d \in Dests : ExtractCall(files[i].name, d, i)

(* Mutant: extract ends like extract_all and clears _extract_all too. *)
ExtractEpilogueClearsAll(retval) ==
  /\ file_to_extract' = None
  /\ dest' = None
  /\ extract_all' = FALSE
  /\ last' = Outcome(retval, "ok", cur.dest)
  /\ UNCHANGED <<files, list_files>>

(* The lines of Cabinet.extract after _do_callback returned. *)
ExtractEpilogue(retval) ==
  /\ file_to_extract' = None
  /\ dest' = None
  /\ last' = Outcome(retval, "ok", cur.dest)
  /\ UNCHANGED <<files, list_files, extract_all>>

ExtractReturn ==
  /\ pc = "iter" /\ cur.op = "extract"
  /\ \E retval \in IterateRetvals :
       IF DoCallbackRaises(retval)
         THEN RaiseCabinetError(retval) /\ failedBefore' = TRUE
         ELSE /\ ExtractEpilogue(retval)
              /\ cur' = NoOp
              /\ phase' = "none" /\ idx' = 0
              /\ UNCHANGED <<cabPath, table, chained, dirs, failedBefore>>
  /\ pc' = "idle"

(* ---- Cabinet.extract_all(dest), up to the call of _do_callback ---- *)
ExtractAllCall(d) ==
  /\ pc = "idle"
  /\ IF (NotDest(d) /\ GetDirRaises) \/ (~NotDest(d) /\ d \notin dirs /\ MkdirRaises(d))
       THEN RaiseWindowsError("extract_all", None, d, 0)
       ELSE /\ dirs' = IF NotDest(d) THEN dirs \cup {GetDirName(cabPath)}
                                     ELSE dirs \cup {d}
            /\ extract_all' = TRUE
            /\ dest' = ExtractAllDest(d)
            /\ cur' = [NoOp EXCEPT !.op = "extract_all", !.destArg = d,
                                   !.dest = ExtractAllDest(d)]
            /\ pc' = "iter" /\ phase' = "info" /\ idx' = 0
            /\ UNCHANGED <<cabPath, table, chained, files, list_files, file_to_extract,
                           last, failedBefore>>

ExtractAll == \E d \in Dests : ExtractAllCall(d)

(* Mutant: `self._extract_all = False` after the call is forgotten. *)
ExtractAllEpilogueKeepsFlag(retval) ==
  /\ dest' = None
  /\ last' = Outcome(retval, "ok", cur.dest)
  /\ UNCHANGED <<files, list_files, extract_all, file_to_extract>>

(* The lines of Cabinet.extract_all after _do_callback returned. *)
ExtractAllEpilogue(retval) ==
  /\ extract_all' = FALSE
  /\ dest' = None
  /\ last' = Outcome(retval, "ok", cur.dest)
  /\ UNCHANGED <<files, list_files, file_to_extract>>

ExtractAllReturn ==
  /\ pc = "iter" /\ cur.op = "extract_all"
  /\ \E retval \in IterateRetvals :
       IF DoCallbackRaises(retval)
         THEN RaiseCabinetError(retval) /\ failedBefore' = TRUE
         ELSE /\ ExtractAllEpilogue(retval)
              /\ cur' = NoOp
              /\ phase' = "none" /\ idx' = 0
              /\ UNCHANGED <<cabPath, table, chained, dirs, failedBefore>>
  /\ pc' = "idle"

Next ==
  \/ Construct
  \/ ConstructReturn
  \/ Extract
  \/ CabinetFileExtract
  \/ ExtractReturn
  \/ ExtractAll
  \/ ExtractAllReturn
  \/ DeliverCabinetInfo
  \/ DeliverFileInCabinet
  \/ DeliverNeedNewCabinet
  \/ DeliverFileExtracted
  \/ DeliverUnknown

Spec == Init /\ [][Next]_vars

TypeOK ==
  /\ pc \in {"new", "iter", "idle", "dead"}
  /\ idx \in 0..Len(table)
  /\ list_files \in BOOLEAN /\ extract_all \in BOOLEAN

(***************************************************************************)
(* Vocabulary of the properties.                                           *)
(***************************************************************************)
(* The FILEINCABINET notifications of a log, in the order delivered. *)
FileAnswers(log) == SelectSeq(log, LAMBDA r : r.code = SPFILENOTIFY_FILEINCABINET)

(* The table entries a log answered FILEOP_DOIT. *)
DoitEntries(log) ==
  {log[i].entry : i \in {j \in 1..Len(log) :
       log[j].code = SPFILENOTIFY_FILEINCABINET /\ log[j].ret = FILEOP_DOIT}}

CatalogNames == {files[i].name : i \in 1..Len(files)}

(* The text of s after its last backslash, the whole of s when it has none. *)
AfterLastBackslash(s) ==
  LET tails == {SubSeq(s, k + 1, Len(s)) : k \in 0..Len(s)}
  IN CHOOSE t \in tails :
       /\ \A i \in 1..Len(t) : t[i] # BS
       /\ Len(t) = Len(s) \/ s[Len(s) - Len(t)] = BS

(* A file name without its extension: the text before its last dot. *)
WithoutExtension(s) ==
  IF \E i \in 1..Len(s) : s[i] = DOT
    THEN SubSeq(s, 1, (CHOOSE i \in 1..Len(s) :
                         s[i] = DOT /\ \A j \in (i + 1)..Len(s) : s[j] # DOT) - 1)
    ELSE s

BaseNameWithoutExtension(path) == WithoutExtension(AfterLastBackslash(path))

ReturnedNormally(op) == pc = "idle" /\ last.op = op /\ last.result = "ok"

(* C1: after the construction returned normally, files holds one           *)
(* CabinetFile per FILEINCABINET notification of the listing pass, in the  *)
(* order delivered, named as the entry and referring to the Cabinet.       *)
C1_FilesMatchListing ==
  ReturnedNormally("init") =>
    LET fa == FileAnswers(last.log)
    IN /\ Len(files) = Len(fa)
       /\ \A i \in 1..Len(fa) :
            /\ files[i].name = table[fa[i].entry]
            /\ files[i].cabinet = Self

C1_Witness ==
  /\ ReturnedNormally("init")
  /\ Len(files) >= 2
  /\ files[1].name = NameQA /\ files[2].name = NameA

(* C2: after an extract or extract_all that ended with CabinetError, an    *)
(* extract(name, dest) answers as on a fresh Cabinet: FILEOP_DOIT with     *)
(* target dest for the entries named name, FILEOP_SKIP for the others.     *)
C2_FailureLeavesFreshState ==
  (failedBefore /\ pc = "iter" /\ cur.op = "extract") =>
    \A i \in 1..Len(cur.log) :
      cur.log[i].code = SPFILENOTIFY_FILEINCABINET =>
        IF cur.log[i].name = cur.name
          THEN cur.log[i].ret = FILEOP_DOIT /\ cur.log[i].target = cur.dest
          ELSE cur.log[i].ret = FILEOP_SKIP

(* C3: extract of a name that no catalog entry has does not return         *)
(* normally.                                                               *)
C3_UnknownNameRaises ==
  (pc = "idle" /\ last.op = "extract" /\ last.retval = 1
     /\ last.name \notin CatalogNames) => last.result # "ok"

(* C4: f.extract(dest) for f in files succeeds and answers FILEOP_DOIT     *)
(* for exactly the entry f was created from.                               *)
C4_ExtractsExactlyItsEntry ==
  (~failedBefore /\ pc = "idle" /\ last.op = "extract" /\ last.via # 0
     /\ last.retval = 1) =>
    /\ last.result = "ok"
    /\ DoitEntries(last.log) = {last.via}

(* C5: when SetupIterateCabinetW reports failure the operation raises      *)
(* CabinetError: no destination is returned, and a failed construction     *)
(* leaves no Cabinet to call.                                              *)
C5_IterationFailureRaises ==
  /\ last.retval = 0 =>
       /\ last.result = "CabinetError"
       /\ last.ret = None
       /\ last.op = "init" => pc = "dead"
  /\ pc = "dead" => last.op = "init" /\ last.result = "CabinetError"

C5_Witness ==
  /\ last.retval = 0 /\ last.op = "extract_all" /\ pc = "idle"
  /\ extract_all /\ dest # None

(* The step on which an extract returns normally right after an earlier    *)
(* extract returned normally with the same arguments, the cabinet having   *)
(* sent the same notifications besides its entries.                        *)
SecondExtractReturns ==
  /\ pc = "iter" /\ cur.op = "extract"
  /\ last.op = "extract" /\ last.result = "ok"
  /\ cur.name = last.name /\ cur.destArg = last.destArg
  /\ cur.unk = last.unk
  /\ phase = "file" /\ idx = Len(table)

(* C6: two consecutive successful extract(name, dest) with the same        *)
(* arguments give the same answers, target paths and return value.         *)
C6_ExtractIdempotent ==
  [][(SecondExtractReturns /\ pc' = "idle" /\ last'.result = "ok") =>
       (last'.log = last.log /\ last'.ret = last.ret)]_vars

C6_Witness ==
  /\ SecondExtractReturns
  /\ DoitEntries(cur.log) # {}
  /\ extract_all

(* C7: a successful extract_all(dest) answers every FILEINCABINET          *)
(* notification FILEOP_DOIT with target dest, a backslash and the part of  *)
(* the name after its last backslash, in table order, and returns dest.    *)
C7_ExtractAllExtractsEverything ==
  ReturnedNormally("extract_all") =>
    LET fa == FileAnswers(last.log)
    IN /\ Len(fa) = Len(table)
       /\ \A i \in 1..Len(fa) :
            /\ fa[i].entry = i
            /\ fa[i].ret = FILEOP_DOIT
            /\ fa[i].target = last.dest \o <<BS>> \o AfterLastBackslash(table[i])
       /\ last.ret = last.dest
       /\ ~NotDest(last.destArg) => last.ret = last.destArg

C7_Witness ==
  /\ ReturnedNormally("extract_all")
  /\ last.destArg = DestD
  /\ \E i \in 1..Len(table) : table[i] = NameQA

(* C8: extract(name, dest) with dest an existing directory extracts to     *)
(* dest, a backslash and the last component of name, and returns that      *)
(* location; only otherwise is the target exactly dest.                    *)
C8_DestDirectoryKeepsName ==
  (~failedBefore /\ ReturnedNormally("extract") /\ ~NotDest(last.destArg)
     /\ DoitEntries(last.log) # {}) =>
    LET where == IF last.destArg \in dirs
                   THEN last.destArg \o <<BS>> \o AfterLastBackslash(last.name)
                   ELSE last.destArg
    IN /\ last.ret = where
       /\ \A i \in 1..Len(last.log) :
            last.log[i].ret = FILEOP_DOIT
              /\ last.log[i].code = SPFILENOTIFY_FILEINCABINET
              => last.log[i].target = where

(* C9: a NEEDNEWCABINET notification is answered NO_ERROR without a new    *)
(* cabinet path, and the Cabinet records it for the caller.                *)
C9_ChainIsFlagged ==
  [][(pc = "iter" /\ pc' = "iter" /\ Len(cur'.log) = Len(cur.log) + 1
        /\ LastAnswer.code = SPFILENOTIFY_NEEDNEWCABINET) =>
       /\ LastAnswer.ret = NO_ERROR
       /\ LastAnswer.target = None
       /\ cabinetState' # cabinetState]_vars

(* C10: with dest omitted the directory used is the cab file's base name   *)
(* without its extension, for every cabinet path.                          *)
C10_GetDirIsBaseName ==
  /\ (pc = "iter" /\ cur.op = "extract_all" /\ NotDest(cur.destArg)) =>
       cur.dest = Cwd \o <<BS>> \o BaseNameWithoutExtension(cabPath)
  /\ (pc = "iter" /\ cur.op = "extract" /\ NotDest(cur.destArg)) =>
       cur.dest = Cwd \o <<BS>> \o BaseNameWithoutExtension(cabPath)
                      \o <<BS>> \o AfterLastBackslash(cur.name)
  /\ (last.result = "WindowsError" /\ NotDest(last.destArg)) =>
       BaseNameWithoutExtension(cabPath) = <<>>

(* The entries of the table the walk has visited so far, in order. *)
VisitedEntries(log) == [i \in 1..Len(FileAnswers(log)) |-> FileAnswers(log)[i].entry]

C12_CatalogImmutable ==
  [][files' # files => (pc = "iter" /\ cur.op = "init")]_vars

C12_Witness ==
  /\ failedBefore /\ ReturnedNormally("extract_all")
  /\ Len(last.log) > 1
  /\ Len(files) = 2
  /\ \A i \in 1..2 : files[i].name = table[i]

(* C13: during the listing pass of the constructor every FILEINCABINET     *)
(* notification is answered FILEOP_SKIP and no target path is written,     *)
(* whatever the names of the entries.                                      *)
C13_ConstructionExtractsNothing ==
  (pc = "iter" /\ cur.op = "init") =>
    /\ phase \in {"info", "file"}
    /\ \A i \in 1..Len(cur.log) :
         /\ cur.log[i].target = None
         /\ cur.log[i].code = SPFILENOTIFY_FILEINCABINET => cur.log[i].ret = FILEOP_SKIP

C13_Witness ==
  /\ pc = "iter" /\ cur.op = "init"
  /\ Len(table) = 2 /\ idx = 2
  /\ VisitedEntries(cur.log) = <<1, 2>>
  /\ table[1] = NameA /\ table[2] = NameQA

(* The modes of the callback that are switched on. *)
ActiveModes ==
  (IF list_files THEN {"listing"} ELSE {})
    \cup (IF extract_all THEN {"extract_all"} ELSE {})
    \cup (IF file_to_extract # None THEN {"single_file"} ELSE {})

(* C14: as long as no public operation has failed, the Cabinet is          *)
(* quiescent between operations (both flags False, _file_to_extract and    *)
(* _dest None) and exactly one mode is active whenever the callback runs.  *)
C14_ModeFlags ==
  ~failedBefore =>
    /\ pc = "idle" =>
         /\ ActiveModes = {}
         /\ dest = None
    /\ pc = "iter" =>
         /\ Cardinality(ActiveModes) = 1
         /\ ActiveModes = {CASE cur.op = "init" -> "listing"
                             [] cur.op = "extract_all" -> "extract_all"
                             [] OTHER -> "single_file"}

C14_Witness ==
  /\ ~failedBefore
  /\ pc = "iter" /\ cur.op = "extract"
  /\ last.op = "extract_all" /\ last.result = "ok"
  /\ DoitEntries(last.log) # {}
  /\ Len(cur.log) >= 2

(* C15: after a successful extract_all distinct entries of the catalog     *)
(* have been given distinct target paths, also when their names differ     *)
(* only before the last backslash.                                         *)
C15_DistinctTargets ==
  ReturnedNormally("extract_all") =>
    LET fa == FileAnswers(last.log)
    IN \A i, j \in 1..Len(fa) :
         (fa[i].entry # fa[j].entry /\ fa[i].name # fa[j].name)
           => fa[i].target # fa[j].target

(* The callback has just been invoked: its answer is the last of the log. *)
CallbackStep == pc = "iter" /\ pc' = "iter" /\ Len(cur'.log) = Len(cur.log) + 1

(* C16: in every mode CABINETINFO, NEEDNEWCABINET and FILEEXTRACTED are    *)
(* answered NO_ERROR and change no field of the Cabinet, and a             *)
(* notification code that is none of the four known raises CabinetError    *)
(* in the callback.                                                        *)
C16_NotificationDispatch ==
  [][CallbackStep =>
       /\ LastAnswer.code \in {SPFILENOTIFY_CABINETINFO, SPFILENOTIFY_NEEDNEWCABINET,
                                SPFILENOTIFY_FILEEXTRACTED} =>
            /\ ~LastAnswer.raised
            /\ LastAnswer.ret = NO_ERROR
            /\ LastAnswer.target = None
            /\ cabinetState' = cabinetState
       /\ LastAnswer.code \notin {SPFILENOTIFY_CABINETINFO, SPFILENOTIFY_FILEINCABINET,
                                   SPFILENOTIFY_NEEDNEWCABINET,
                                   SPFILENOTIFY_FILEEXTRACTED} =>
            /\ LastAnswer.raised
            /\ cabinetState' = cabinetState
       /\ LastAnswer.code = SPFILENOTIFY_FILEINCABINET => ~LastAnswer.raised]_vars

C16_Witness ==
  /\ pc = "iter" /\ cur.op = "extract_all"
  /\ \E i \in 1..Len(cur.log) :
       cur.log[i].code = UnknownNotification /\ cur.log[i].raised
  /\ \E i \in 1..Len(cur.log) : cur.log[i].code = SPFILENOTIFY_NEEDNEWCABINET
  /\ \E i \in 1..Len(cur.log) : cur.log[i].code = SPFILENOTIFY_FILEEXTRACTED
  /\ cur.log[1].code = SPFILENOTIFY_CABINETINFO

====
